---- MODULE Spec2Model ----
(***************************************************************************)
(* Model of the object storage gateway of nexus-rag-backend                *)
(* (src/src/services/object_storage.py) and of the document endpoints that *)
(* use it (src/src/api/v1/endpoints/documents.py).                         *)
(*                                                                         *)
(* Strings are sequences of one-character strings, so that strip, split,   *)
(* replace and prefix matching are computed as the code computes them.     *)
(***************************************************************************)
EXTENDS Integers, Sequences, FiniteSets, TLC

(***************************************************************************)
(* Bounds of the model.                                                    *)
(***************************************************************************)
\* Longest filename build_key is applied to in SpecKey.
MaxLen == 3

\* The page cap of the bucket's listing and the batch size of delete_prefix:
\* 1000 in the source (object_storage.py lines 136, 139, 208 and 214,
\* documents.py line 51), scaled down so that buckets of a few objects span
\* several pages and several batches.
PageCap == 2

\* Newest timestamp an object carries; 0 stands for a listing entry without
\* LastModified (last_modified is None).
MaxTime == 2

\* Writes by other clients of the bucket while a call is in flight.
MaxWrites == 1

\* Calls of get_object_storage_service in SpecService.
MaxCalls == 4

(***************************************************************************)
(* Strings.                                                                *)
(***************************************************************************)
\* Python's None for an Optional[str]: a value no string of the model equals.
None == <<"<None>">>

\* Truthiness of an Optional[str]: None and "" are falsy.
Truthy(s) == s # None /\ s # <<>>

\* The characters of the model in code-point order (ASCII), for the
\* lexicographic order in which the bucket yields keys.
CodePoints ==
    <<" ", "(", "-", ".", "/", "\\", "_",
      "a", "b", "c", "d", "e", "f", "i", "l", "m", "n", "o", "s", "t", "u", "x">>

Ord(c) == CHOOSE i \in 1..Len(CodePoints) : CodePoints[i] = c

\* str.isspace for the characters of the model.
Whitespace == {" "}

\* The characters the pattern [A-Za-z0-9_.-] of _sanitize_filename keeps.
SafeChars == {"-", ".", "_",
              "a", "b", "c", "d", "e", "f", "i", "l", "m", "n", "o", "s", "t", "u", "x"}

StartsWith(s, p) == Len(p) <= Len(s) /\ SubSeq(s, 1, Len(p)) = p

RECURSIVE LStrip(_, _)
LStrip(s, chars) ==
    IF s # <<>> /\ Head(s) \in chars THEN LStrip(Tail(s), chars) ELSE s

RECURSIVE RStrip(_, _)
RStrip(s, chars) ==
    IF s # <<>> /\ s[Len(s)] \in chars
    THEN RStrip(SubSeq(s, 1, Len(s) - 1), chars)
    ELSE s

\* str.strip(chars): drops the leading and the trailing characters in chars.
Strip(s, chars) == RStrip(LStrip(s, chars), chars)

\* str.replace(old, new) for single characters.
Replace(s, old, new) == [i \in 1..Len(s) |-> IF s[i] = old THEN new ELSE s[i]]

\* str.split(sep): the segments between the separators, empty ones included.
RECURSIVE Split(_, _)
Split(s, sep) ==
    IF \A i \in 1..Len(s) : s[i] # sep
    THEN <<s>>
    ELSE LET i == CHOOSE j \in 1..Len(s) :
                    s[j] = sep /\ \A k \in 1..(j - 1) : s[k] # sep
         IN  <<SubSeq(s, 1, i - 1)>> \o Split(SubSeq(s, i + 1, Len(s)), sep)

\* sep.join(parts)
RECURSIVE Join(_, _)
Join(parts, sep) ==
    IF parts = <<>> THEN <<>>
    ELSE IF Len(parts) = 1 THEN parts[1]
    ELSE parts[1] \o <<sep>> \o Join(Tail(parts), sep)

Last(seq) == seq[Len(seq)]

\* Strict lexicographic order of two strings by code point.
RECURSIVE StrLess(_, _)
StrLess(s, t) ==
    IF t = <<>> THEN FALSE
    ELSE IF s = <<>> THEN TRUE
    ELSE IF Head(s) = Head(t) THEN StrLess(Tail(s), Tail(t))
    ELSE Ord(Head(s)) < Ord(Head(t))

(***************************************************************************)
(* build_key and _sanitize_filename.                                       *)
(***************************************************************************)
\* re.sub(r"[^A-Za-z0-9_.-]", "_", base)
SubUnsafe(base) ==
    [i \in 1..Len(base) |-> IF base[i] \in SafeChars THEN base[i] ELSE "_"]

FILE == <<"f", "i", "l", "e">>

\* A sanitizer that forgets the fallback to "file".
SanitizeNoFallback(filename) ==
    SubUnsafe(Last(Split(Replace(Strip(filename, Whitespace), "\\", "/"), "/")))

_sanitize_filename(filename) ==
    LET base1 == Strip(filename, Whitespace)
        base2 == Last(Split(Replace(base1, "\\", "/"), "/"))
        base3 == SubUnsafe(base2)
    IN  IF base3 # <<>> THEN base3 ELSE FILE

build_key(filename, prefix) ==
    LET safe_name == _sanitize_filename(filename)
    IN  IF Truthy(prefix)
        THEN Strip(prefix, {"/"}) \o <<"/">> \o safe_name
        ELSE safe_name

(***************************************************************************)
(* State.                                                                  *)
(***************************************************************************)
VARIABLES
    \* the bucket: a set of [key, last_modified], one object per key
    bucket,
    \* the pending remote request of the call in flight, or "idle"
    pc,
    \* the frames of the call in flight, outermost first
    stack,
    \* arguments of the call in flight; file is the UploadFile, by its
    \* filename and the length of its content
    prefix, document_id, file,
    \* locals of list_objects
    clean_prefix, max_keys, effective_max_keys, objects, continuation_token,
    \* locals of delete_prefix
    normalized_prefix, total_deleted,
    \* locals of delete_objects and upload_file
    key_list, key, size,
    \* what the last completed call gave its caller
    result,
    \* history of the call in flight: the remote requests it issued, the
    \* bucket when it started, how often another client wrote meanwhile
    requests, snapshot, writes,
    \* history across calls: progress through list, delete_prefix, list on
    \* one prefix, and the document last deleted with nothing stored since
    scenario, last_deleted,
    \* build_key applied to a filename, and applied again to its result
    kpc, kfilename, kprefix, built, rebuilt,
    \* the settings, the lru_cache of get_object_storage_service, and the
    \* history of its calls
    settings, cache, constructed, init_runs, received, calls

callVars == <<pc, stack, prefix, document_id, file, result, scenario, last_deleted>>
listVars == <<clean_prefix, max_keys, effective_max_keys, objects, continuation_token>>
prefixVars == <<normalized_prefix, total_deleted>>
workVars == <<key_list, key, size>>
histVars == <<requests, snapshot, writes>>
keyVars == <<kpc, kfilename, kprefix, built, rebuilt>>
serviceVars == <<settings, cache, constructed, init_runs, received, calls>>
storageVars == <<bucket, callVars, listVars, prefixVars, workVars, histVars>>
vars == <<storageVars, keyVars, serviceVars>>

(***************************************************************************)
(* The bucket (the S3-compatible store behind self.client).                *)
(***************************************************************************)
Min(a, b) == IF a < b THEN a ELSE b
Max(a, b) == IF a < b THEN b ELSE a

Keys(b) == {o.key : o \in b}

\* put_object: stores the object under its key, replacing an older one.
PutObject(b, k, t) == {o \in b : o.key # k} \cup {[key |-> k, last_modified |-> t]}

\* delete_objects: removes the named keys; naming a missing key is no error.
DeleteObjects(b, ks) == {o \in b : \A i \in 1..Len(ks) : ks[i] # o.key}

Matching(b, p) == {o \in b : StartsWith(o.key, p)}

\* The objects of a set in the order the bucket yields them: by key.
SortByKey(os) ==
    [i \in 1..Cardinality(os) |->
        CHOOSE o \in os : Cardinality({q \in os : StrLess(q.key, o.key)}) = i - 1]

\* list_objects_v2: one page of at most MaxKeys objects whose key starts with
\* Prefix, after the key the continuation token names.
ListObjectsV2(b, Prefix, MaxKeys, ContinuationToken) ==
    LET all == SortByKey(Matching(b, Prefix))
        After(o) == ContinuationToken = None \/ StrLess(ContinuationToken, o.key)
        rest == SelectSeq(all, After)
        n == Min(MaxKeys, Len(rest))
    IN  [Contents |-> SubSeq(rest, 1, n),
         IsTruncated |-> Len(rest) > MaxKeys,
         NextContinuationToken |-> IF Len(rest) > MaxKeys THEN rest[n].key ELSE None]

\* How a remote request ends: it succeeds, the client raises
\* botocore.exceptions.ClientError, or it raises anything else (a transport
\* failure such as EndpointConnectionError is a BotoCoreError, no ClientError).
Outcomes == {"ok", "ClientError", "OtherError"}

Request(api, Prefix, MaxKeys, ContinuationToken, Ks) ==
    [api |-> api, Prefix |-> Prefix, MaxKeys |-> MaxKeys,
     ContinuationToken |-> ContinuationToken, Keys |-> Ks]

(***************************************************************************)
(* Inputs.                                                                 *)
(***************************************************************************)
DOCUMENTS == <<"d", "o", "c", "u", "m", "e", "n", "t", "s">>

\* _document_prefix
_document_prefix(id) == DOCUMENTS \o <<"/">> \o id

\* The identifiers uuid.uuid4() yields: strings of one length.
Uuids == {<<"a", "a">>, <<"a", "b">>}

\* The identifiers a DELETE request may name: any path segment.
DocumentIds == Uuids \cup {<<"a">>, <<"b", "a">>}

\* Keys the bucket may hold when the process starts: documents stored by
\* upload_document, and keys other users of the bucket stored.
StoredKeys ==
    {_document_prefix(id) \o <<"/", "f">> : id \in Uuids}
        \cup {DOCUMENTS \o <<"/", "f">>, DOCUMENTS \o <<"x", "/", "a", "/", "f">>}

\* Keys the bucket of the gateway's callers may hold when the process starts.
GatewayKeys == StoredKeys \cup {_document_prefix(<<"b", "a">>) \o <<"/", "f">>}

\* Keys another client stores while a call is in flight.
WriterKeys == {_document_prefix(<<"a", "b">>) \o <<"/", "f">>}

\* Prefixes given to list_objects and delete_prefix.
Prefixes ==
    {<<>>, <<"/">>, <<"x">>, DOCUMENTS, <<"/">> \o DOCUMENTS,
     _document_prefix(<<"a">>), _document_prefix(<<"a">>) \o <<"/">>}

\* max_keys given to list_objects: below, at and above the page cap.
MaxKeysArgs == {0, 1, PageCap, PageCap + 1, 2 * PageCap + 1}

\* Filenames of uploaded files; the empty one is a file without a name.
Filenames == {<<>>, <<"f">>, <<" ", "x", "/", "f">>}

\* destination_path given to upload_file.
DestinationPaths == {None, <<"x">>}

\* Keys given to delete_objects.
KeyLists ==
    {<<>>, << <<>> >>, <<DOCUMENTS \o <<"/", "f">>>>,
     <<_document_prefix(<<"a", "a">>) \o <<"/", "f">>, <<>>, <<"f">>>>}

\* The present: what put_object stamps on the object it stores.
Now == MaxTime

NoResult ==
    [op |-> "none", status |-> "none", http |-> 0, count |-> 0, listing |-> <<>>,
     documents |-> <<>>, url |-> None, fault |-> "none", again |-> FALSE]

NoScenario == [stage |-> 0, P |-> None, deleted |-> 0]

NoFile == [filename |-> None, length |-> 0]

(***************************************************************************)
(* Completion of a call.                                                   *)
(***************************************************************************)
HttpOps == {"upload_document", "list_documents", "delete_document"}

\* Progress through list_objects(prefix=P), delete_prefix(P),
\* list_objects(prefix=P) with no remote failure and no other writer, when a
\* call of op on prefix P (max_keys mk) ends with res; deleted is the count
\* delete_prefix returned.
ScenarioAfter(op, res, P, mk, dist) ==
    IF dist \/ res.fault # "none" THEN NoScenario
    ELSE IF op = "list_objects" /\ res.status = "ok" /\ mk = PageCap /\ P # None
    THEN IF scenario.stage = 2 /\ scenario.P = P
         THEN [scenario EXCEPT !.stage = 3]
         ELSE [stage |-> 1, P |-> P, deleted |-> 0]
    ELSE IF op = "delete_prefix" /\ scenario.stage = 1 /\ scenario.P = P
    THEN [stage |-> 2, P |-> P, deleted |-> res.count]
    ELSE NoScenario

\* The document whose delete succeeded last, while nothing was stored since.
LastDeletedAfter(op, status, fault, id, dist) ==
    IF op = "delete_document"
    THEN IF status = "ok" /\ ~dist /\ fault = "none" THEN id ELSE None
    ELSE IF op \in {"upload_file", "upload_document"} THEN None
    ELSE last_deleted

Finish(op, res, P, id, mk, dist) ==
    /\ pc' = "done"
    /\ stack' = <<>>
    /\ result' = [res EXCEPT !.op = op,
                             !.again = (op = "delete_document" /\ last_deleted = id)]
    /\ scenario' = ScenarioAfter(op, res, P, mk, dist)
    /\ last_deleted' = LastDeletedAfter(op, res.status, res.fault, id, dist)

\* The call in flight ends and hands res to its caller.
Complete(res) ==
    /\ Finish(stack[1], res, prefix, document_id, max_keys, writes > 0)
    /\ UNCHANGED <<prefix, document_id, file>>

\* The call goes on to its next remote request.
Continue(next, frames) ==
    /\ pc' = next
    /\ stack' = frames
    /\ UNCHANGED <<prefix, document_id, file, result, scenario, last_deleted>>

\* What an exception leaving the gateway gives the caller of op: the
\* endpoints turn ObjectStorageError and every other Exception into a 500.
Raised(op, error, fault) ==
    IF op \in HttpOps
    THEN [NoResult EXCEPT !.status = "HTTPException", !.http = 500, !.fault = fault]
    ELSE [NoResult EXCEPT !.status = error, !.fault = fault]

Raise(error, fault) == Complete(Raised(stack[1], error, fault))

\* except ClientError as exc: raise ObjectStorageError(str(exc)) from exc
Wrapped(outcome) ==
    IF outcome = "ClientError" THEN "ObjectStorageError" ELSE outcome

(***************************************************************************)
(* Start of a call: its history is empty and the locals of the frames it   *)
(* does not enter are at rest.                                             *)
(***************************************************************************)
Begin ==
    /\ pc = "idle"
    /\ requests' = <<>>
    /\ snapshot' = bucket
    /\ writes' = 0
    /\ UNCHANGED <<bucket, keyVars, serviceVars>>

\* A call goes on with the scenario only when it is the scenario's next call.
ScenarioAtCall(op, P, mk) ==
    IF \/ op = "list_objects" /\ mk = PageCap /\ scenario.stage = 2 /\ scenario.P = P
       \/ op = "delete_prefix" /\ scenario.stage = 1 /\ scenario.P = P
    THEN scenario
    ELSE NoScenario

\* A call that stores nothing and deletes no other document keeps the
\* document last deleted.
LastDeletedAtCall(op, id) ==
    IF op = "list_documents" \/ (op = "delete_document" /\ id = last_deleted)
    THEN last_deleted
    ELSE None

\* The call goes on to its first remote request.
Proceed(op, P, mk, id, next, frames) ==
    /\ pc' = next
    /\ stack' = frames
    /\ result' = NoResult
    /\ scenario' = ScenarioAtCall(op, P, mk)
    /\ last_deleted' = LastDeletedAtCall(op, id)

RestList ==
    /\ clean_prefix' = None
    /\ max_keys' = 0
    /\ effective_max_keys' = 0
    /\ objects' = <<>>
    /\ continuation_token' = None

RestPrefix == normalized_prefix' = None /\ total_deleted' = 0

RestWork == key_list' = <<>> /\ key' = None /\ size' = 0

Base(frames) == SubSeq(frames, 1, Len(frames) - 1)

Ok == [NoResult EXCEPT !.status = "ok"]

(***************************************************************************)
(* list_objects, and list_documents which reads its result.                *)
(***************************************************************************)
\* A return that never cuts the listing to max_keys.
TakeAll(objs, mk) == objs

\* objects[:max_keys], for max_keys >= 0
Take(objs, mk) == SubSeq(objs, 1, Min(mk, Len(objs)))

\* The statements of list_objects before its loop.
EnterList(P, mk) ==
    /\ clean_prefix' = IF Truthy(P) THEN Strip(P, {"/"}) ELSE None
    /\ max_keys' = mk
    /\ effective_max_keys' = Max(1, Min(mk, PageCap))
    /\ objects' = <<>>
    /\ continuation_token' = None

\* The DocumentInfo list_documents builds for one object.
ToDocument(obj) ==
    LET parts == Split(obj.key, "/")
    IN  [id |-> parts[2],
         filename |-> Join(SubSeq(parts, 3, Len(parts)), "/"),
         last_modified |-> obj.last_modified]

RECURSIVE ToDocuments(_)
ToDocuments(objs) ==
    IF objs = <<>> THEN <<>>
    ELSE (IF Len(Split(Head(objs).key, "/")) < 3
          THEN <<>>
          ELSE <<ToDocument(Head(objs))>>) \o ToDocuments(Tail(objs))

\* key=lambda doc: doc.last_modified.timestamp() if doc.last_modified
\* else float("-inf")
SortKey(doc) == IF doc.last_modified # 0 THEN doc.last_modified ELSE -1

RECURSIVE InsertDocument(_, _)
InsertDocument(sorted, doc) ==
    IF sorted = <<>> THEN <<doc>>
    ELSE IF SortKey(Head(sorted)) >= SortKey(doc)
    THEN <<Head(sorted)>> \o InsertDocument(Tail(sorted), doc)
    ELSE <<doc>> \o sorted

\* documents.sort(key=..., reverse=True): stable, largest key first.
RECURSIVE SortDocuments(_)
SortDocuments(docs) ==
    IF docs = <<>> THEN <<>>
    ELSE InsertDocument(SortDocuments(Base(docs)), Last(docs))

\* CallListObjects: list_objects(prefix=P, max_keys=mk) is called.
CallListObjects(P, mk) ==
    /\ Begin
    /\ EnterList(P, mk)
    /\ RestPrefix /\ RestWork
    /\ prefix' = P /\ document_id' = None /\ file' = NoFile
    /\ Proceed("list_objects", P, mk, None, "list", <<"list_objects">>)

\* list_documents is called.
CallListDocuments ==
    /\ Begin
    /\ EnterList(DOCUMENTS, PageCap)
    /\ RestPrefix /\ RestWork
    /\ prefix' = DOCUMENTS /\ document_id' = None /\ file' = NoFile
    /\ Proceed("list_documents", DOCUMENTS, PageCap, None, "list",
               <<"list_documents", "list_objects">>)

(***************************************************************************)
(* delete_objects, delete_prefix and delete_document.                      *)
(***************************************************************************)
\* key_list = [key for key in keys if key]
KeyList(ks) == LET NonEmpty(k) == k # <<>> IN SelectSeq(ks, NonEmpty)

KeysOf(objs) == [i \in 1..Len(objs) |-> objs[i].key]

\* A loop that stops after its first batch.
ExhaustedAtOnce(objs) == TRUE

\* if len(objects) < 1000: break
Exhausted(objs) == Len(objs) < PageCap

\* A count that keeps the last batch only.
AccumulateLast(total, n) == n

\* total_deleted += await self.delete_objects(...)
Accumulate(total, n) == total + n

\* A test that never reports a missing document.
NotFoundNever(deleted_count) == deleted_count < 0

\* if deleted_count == 0: raise HTTPException(status_code=404, ...)
NotFound(deleted_count) == deleted_count = 0

\* delete_prefix returns total: to its caller, or to delete_document, which
\* answers 404 or the success message.
ReturnFromPrefix(total) ==
    IF stack[1] = "delete_prefix"
    THEN Complete([Ok EXCEPT !.count = total])
    ELSE IF NotFound(total)
    THEN Complete([NoResult EXCEPT !.status = "HTTPException", !.http = 404])
    ELSE Complete([Ok EXCEPT !.http = 200, !.count = total])

\* delete_prefix after delete_objects returned n for the listing objs: it
\* adds n, then returns or lists again.
PrefixLoop(objs, n) ==
    LET total == Accumulate(total_deleted, n) IN
    /\ total_deleted' = total
    /\ IF Exhausted(objs)
       THEN /\ objects' = objs
            /\ UNCHANGED continuation_token
            /\ ReturnFromPrefix(total)
       ELSE /\ objects' = <<>>
            /\ continuation_token' = None
            /\ Continue("list", Append(Base(stack), "list_objects"))

\* delete_prefix after list_objects returned objs.
AfterListing(objs) ==
    IF objs = <<>>
    THEN /\ objects' = objs
         /\ UNCHANGED <<continuation_token, total_deleted, key_list>>
         /\ ReturnFromPrefix(total_deleted)
    ELSE LET ks == KeyList(KeysOf(objs)) IN
         /\ key_list' = ks
         /\ IF ks = <<>>
            THEN PrefixLoop(objs, 0)
            ELSE /\ objects' = objs
                 /\ UNCHANGED <<continuation_token, total_deleted>>
                 /\ Continue("delete", Append(Base(stack), "delete_objects"))

\* list_objects returns objs to the frame that called it.
ReturnFromList(objs) ==
    IF stack = <<"list_objects">>
    THEN /\ objects' = objs
         /\ UNCHANGED <<continuation_token, total_deleted, key_list>>
         /\ Complete([Ok EXCEPT !.listing = objs, !.count = Len(objs)])
    ELSE IF stack[1] = "list_documents"
    THEN LET documents == SortDocuments(ToDocuments(objs)) IN
         /\ objects' = objs
         /\ UNCHANGED <<continuation_token, total_deleted, key_list>>
         /\ Complete([Ok EXCEPT !.http = 200, !.documents = documents,
                                !.count = Len(documents)])
    ELSE AfterListing(objs)

\* ListPage: one list_objects_v2 request of the loop of list_objects ends.
ListPage(outcome) ==
    /\ pc = "list"
    /\ \E req \in {Request("list_objects_v2",
                            IF Truthy(clean_prefix) THEN clean_prefix ELSE <<>>,
                            effective_max_keys,
                            IF Truthy(continuation_token) THEN continuation_token ELSE None,
                            <<>>)} :
           /\ requests' = Append(requests, req)
           /\ IF outcome # "ok"
              THEN /\ Raise(Wrapped(outcome), outcome)
                   /\ UNCHANGED <<objects, continuation_token, total_deleted, key_list>>
              ELSE \E response \in {ListObjectsV2(bucket, req.Prefix, req.MaxKeys,
                                                   req.ContinuationToken)} :
                   \E objs \in {objects \o response.Contents} :
                       IF ~response.IsTruncated \/ Len(objs) >= max_keys
                       THEN \E returned \in {Take(objs, max_keys)} :
                                ReturnFromList(returned)
                       ELSE /\ objects' = objs
                            /\ continuation_token' = response.NextContinuationToken
                            /\ UNCHANGED <<total_deleted, key_list>>
                            /\ Continue("list", stack)
    /\ UNCHANGED <<bucket, clean_prefix, max_keys, effective_max_keys,
                   normalized_prefix, key, size, snapshot, writes,
                   keyVars, serviceVars>>

\* DeleteBatch: the delete_objects request of delete_objects ends.
DeleteBatch(outcome) ==
    /\ pc = "delete"
    /\ requests' = Append(requests, Request("delete_objects", <<>>, 0, None, key_list))
    /\ IF outcome # "ok"
       THEN /\ Raise(Wrapped(outcome), outcome)
            /\ UNCHANGED <<bucket, objects, continuation_token, total_deleted>>
       ELSE /\ bucket' = DeleteObjects(bucket, key_list)
            /\ IF stack = <<"delete_objects">>
               THEN /\ Complete([Ok EXCEPT !.count = Len(key_list)])
                    /\ UNCHANGED <<objects, continuation_token, total_deleted>>
               ELSE PrefixLoop(objects, Len(key_list))
    /\ UNCHANGED <<clean_prefix, max_keys, effective_max_keys, normalized_prefix,
                   key_list, key, size, snapshot, writes,
                   keyVars, serviceVars>>

\* CallDeleteObjects: delete_objects(ks) is called; without keys it returns 0
\* at once.
CallDeleteObjects(ks) ==
    /\ Begin
    /\ RestList /\ RestPrefix
    /\ key_list' = KeyList(ks) /\ key' = None /\ size' = 0
    /\ prefix' = None /\ document_id' = None /\ file' = NoFile
    /\ IF KeyList(ks) = <<>>
       THEN Finish("delete_objects", Ok, None, None, 0, FALSE)
       ELSE Proceed("delete_objects", None, 0, None, "delete", <<"delete_objects">>)

\* The statements of delete_prefix(P) before its first listing, in a call
\* of op with the frames above delete_prefix.
EnterPrefix(op, frames, P, id) ==
    LET normalized == Strip(P, {"/"}) IN
    /\ Begin
    /\ RestWork
    /\ prefix' = P /\ document_id' = id /\ file' = NoFile
    /\ IF normalized = <<>>
       THEN /\ RestList /\ RestPrefix
            /\ Finish(op, Raised(op, "ObjectStorageError", "none"), P, id, 0, FALSE)
       ELSE /\ EnterList(normalized, PageCap)
            /\ normalized_prefix' = normalized /\ total_deleted' = 0
            /\ Proceed(op, P, PageCap, id, "list",
                       frames \o <<"delete_prefix", "list_objects">>)

\* CallDeletePrefix: delete_prefix(P) is called.
CallDeletePrefix(P) == EnterPrefix("delete_prefix", <<>>, P, None)

\* CallDeleteDocument: DELETE /api/v1/documents/{id} is received.
CallDeleteDocument(id) ==
    EnterPrefix("delete_document", <<"delete_document">>, _document_prefix(id), id)

(***************************************************************************)
(* upload_file, upload_document and generate_presigned_url.                *)
(***************************************************************************)
\* A check that lets empty content through.
EmptyContentIgnored(sz) == FALSE

\* if size == 0: raise ObjectStorageError(...)
EmptyContent(sz) == sz = 0

\* upload_file(file, destination_path=dest) for a file named name of sz
\* bytes, in a call of op: it raises before any request, or goes on to
\* put_object.
EnterUpload(op, name, dest, sz, id) ==
    /\ Begin
    /\ RestList /\ RestPrefix
    /\ prefix' = None /\ document_id' = id
    /\ file' = [filename |-> name, length |-> sz]
    /\ key_list' = <<>>
    /\ IF ~Truthy(name)
       THEN /\ key' = None /\ size' = 0
            /\ Finish(op, Raised(op, "ObjectStorageError", "none"), None, id, 0, FALSE)
       ELSE /\ key' = IF Truthy(dest) THEN dest ELSE build_key(name, None)
            /\ size' = sz
            /\ IF EmptyContent(sz)
               THEN Finish(op, Raised(op, "ObjectStorageError", "none"), None, id, 0, FALSE)
               ELSE Proceed(op, None, 0, id, "put",
                            IF op = "upload_file" THEN <<op>> ELSE <<op, "upload_file">>)

\* CallUploadFile: upload_file is called.
CallUploadFile(name, dest, sz) == EnterUpload("upload_file", name, dest, sz, None)

\* CallUploadDocument: POST /api/v1/documents/upload is received; id is the
\* uuid4 the handler draws.
CallUploadDocument(id, name, sz) ==
    LET storage_key == build_key(IF Truthy(name) THEN name ELSE FILE,
                                 _document_prefix(id))
    IN  EnterUpload("upload_document", name, storage_key, sz, id)

\* PutObjectDone: the put_object request of upload_file ends.
PutObjectDone(outcome) ==
    /\ pc = "put"
    /\ requests' = Append(requests, Request("put_object", <<>>, 0, None, <<key>>))
    /\ IF outcome # "ok"
       THEN /\ Raise(Wrapped(outcome), outcome)
            /\ UNCHANGED bucket
       ELSE /\ bucket' = PutObject(bucket, key, Now)
            /\ Complete([Ok EXCEPT !.http = IF stack[1] \in HttpOps THEN 200 ELSE 0,
                                   !.count = size])
    /\ UNCHANGED <<listVars, prefixVars, workVars, snapshot, writes,
                   keyVars, serviceVars>>

\* CallPresign: generate_presigned_url(k) is called.
CallPresign(k) ==
    /\ Begin
    /\ RestList /\ RestPrefix
    /\ key_list' = <<>> /\ key' = k /\ size' = 0
    /\ prefix' = None /\ document_id' = None /\ file' = NoFile
    /\ Proceed("generate_presigned_url", None, 0, None, "presign",
               <<"generate_presigned_url">>)

\* PresignDone: the client's generate_presigned_url ends.
PresignDone(outcome) ==
    /\ pc = "presign"
    /\ requests' = Append(requests,
                          Request("generate_presigned_url", <<>>, 0, None, <<key>>))
    /\ IF outcome # "ok"
       THEN Raise(Wrapped(outcome), outcome)
       ELSE Complete([Ok EXCEPT !.url = key])
    /\ UNCHANGED <<bucket, listVars, prefixVars, workVars, snapshot, writes, keyVars, serviceVars>>

(***************************************************************************)
(* Another client of the bucket stores an object while a call is in flight.*)
(***************************************************************************)
ConcurrentPut(k) ==
    /\ pc \notin {"idle", "done"}
    /\ writes < MaxWrites
    /\ writes' = writes + 1
    /\ bucket' = PutObject(bucket, k, Now)
    /\ scenario' = NoScenario
    /\ last_deleted' = None
    /\ UNCHANGED <<pc, stack, prefix, document_id, file, result, listVars, prefixVars,
                   workVars, requests, snapshot, keyVars, serviceVars>>

\* Return: the caller has the result; the frames of the call are gone.
Return ==
    /\ pc = "done"
    /\ pc' = "idle"
    /\ RestList /\ RestPrefix /\ RestWork
    /\ prefix' = None /\ document_id' = None /\ file' = NoFile
    /\ result' = NoResult
    /\ requests' = <<>> /\ snapshot' = bucket /\ writes' = 0
    /\ UNCHANGED <<bucket, stack, scenario, last_deleted, keyVars, serviceVars>>

(***************************************************************************)
(* Specifications of the gateway (Spec) and of the endpoints (SpecDocs).   *)
(***************************************************************************)
\* The buckets over the keys ks whose objects carry a timestamp in times.
Buckets(ks, times) ==
    UNION {{{[key |-> k, last_modified |-> f[k]] : k \in K} : f \in [K -> times]}
           : K \in SUBSET ks}

KeyAtRest ==
    /\ kpc = "off" /\ kfilename = <<>> /\ kprefix = None
    /\ built = None /\ rebuilt = None

ServiceAtRest ==
    /\ settings = {} /\ cache = 0 /\ constructed = 0 /\ init_runs = 0
    /\ received = {} /\ calls = 0

StorageAtRest ==
    /\ pc = "idle" /\ stack = <<>>
    /\ prefix = None /\ document_id = None /\ file = NoFile
    /\ clean_prefix = None /\ max_keys = 0 /\ effective_max_keys = 0
    /\ objects = <<>> /\ continuation_token = None
    /\ normalized_prefix = None /\ total_deleted = 0
    /\ key_list = <<>> /\ key = None /\ size = 0
    /\ result = NoResult
    /\ requests = <<>> /\ writes = 0
    /\ scenario = NoScenario /\ last_deleted = None

Init ==
    /\ bucket \in Buckets(GatewayKeys, {1})
    /\ snapshot = bucket
    /\ StorageAtRest /\ KeyAtRest /\ ServiceAtRest

Steps ==
    \/ \E outcome \in Outcomes : ListPage(outcome)
    \/ \E outcome \in Outcomes : DeleteBatch(outcome)
    \/ \E outcome \in Outcomes : PutObjectDone(outcome)
    \/ \E k \in WriterKeys : ConcurrentPut(k)
    \/ Return

Next ==
    \/ \E P \in Prefixes \cup {None}, mk \in MaxKeysArgs : CallListObjects(P, mk)
    \/ \E ks \in KeyLists : CallDeleteObjects(ks)
    \/ \E P \in Prefixes : CallDeletePrefix(P)
    \/ \E name \in Filenames, dest \in DestinationPaths, sz \in 0..1 :
            CallUploadFile(name, dest, sz)
    \/ CallPresign(<<"f">>)
    \/ \E outcome \in Outcomes : PresignDone(outcome)
    \/ Steps

Spec == Init /\ [][Next]_vars

InitDocs ==
    /\ bucket \in Buckets(StoredKeys, 0..MaxTime)
    /\ snapshot = bucket
    /\ StorageAtRest /\ KeyAtRest /\ ServiceAtRest

NextDocs ==
    \/ \E id \in Uuids, name \in Filenames, sz \in 0..1 : CallUploadDocument(id, name, sz)
    \/ CallListDocuments
    \/ \E id \in DocumentIds : CallDeleteDocument(id)
    \/ Steps

SpecDocs == InitDocs /\ [][NextDocs]_vars

\* delete_prefix alone, with the fairness the event loop and the client's
\* timeouts give: a request that is awaited ends, with a response or with
\* an exception.
AwaitedRequestEnds ==
    \/ \E outcome \in Outcomes \ {"ok"} : ListPage(outcome) \/ DeleteBatch(outcome)
    \/ ListPage("ok")
    \/ DeleteBatch("ok")

NextPrefix ==
    \/ \E P \in Prefixes : CallDeletePrefix(P)
    \/ \E outcome \in Outcomes : ListPage(outcome)
    \/ \E outcome \in Outcomes : DeleteBatch(outcome)
    \/ \E k \in WriterKeys : ConcurrentPut(k)
    \/ Return

SpecPrefix == Init /\ [][NextPrefix]_vars /\ WF_vars(AwaitedRequestEnds)

(***************************************************************************)
(* SpecKey: build_key applied to a filename, then to the key it returned.  *)
(***************************************************************************)
\* Characters of the filenames: whitespace, both separators, a character
\* the pattern keeps, one it replaces, and the dot.
KeyChars == {" ", "/", "\\", "a", "(", "."}

Strings(n) == UNION {[1..k -> KeyChars] : k \in 0..n}

KeyPrefixes == {None, <<>>, <<"/">>, <<"a">>, <<"/", "a", "/">>}

InitKey ==
    /\ kpc = "start"
    /\ kfilename \in Strings(MaxLen)
    /\ kprefix \in KeyPrefixes
    /\ built = None /\ rebuilt = None
    /\ bucket = {} /\ snapshot = {}
    /\ StorageAtRest /\ ServiceAtRest

\* BuildKey: build_key(filename, prefix)
BuildKey ==
    /\ kpc = "start"
    /\ built' = build_key(kfilename, kprefix)
    /\ kpc' = "built"
    /\ UNCHANGED <<kfilename, kprefix, rebuilt, storageVars, serviceVars>>

\* BuildKeyAgain: build_key applied to the key BuildKey returned.
BuildKeyAgain ==
    /\ kpc = "built"
    /\ rebuilt' = build_key(built, kprefix)
    /\ kpc' = "rebuilt"
    /\ UNCHANGED <<kfilename, kprefix, built, storageVars, serviceVars>>

NextKey == BuildKey \/ BuildKeyAgain

SpecKey == InitKey /\ [][NextKey]_vars

(***************************************************************************)
(* SpecService: get_object_storage_service, called by the handlers. The    *)
(* handlers are coroutines of one event loop and the call holds no await,  *)
(* so the calls do not overlap.                                            *)
(***************************************************************************)
SettingNames ==
    {"R2_ACCESS_KEY_ID", "R2_SECRET_ACCESS_KEY", "R2_BUCKET_NAME",
     "R2_ENDPOINT_URL", "R2_ACCOUNT_ID"}

Handlers == {"upload_document", "list_documents", "delete_document"}

\* _validate_configuration passes: no required field is missing, and the
\* endpoint URL or the account id is given.
_validate_configuration(set) ==
    /\ {"R2_ACCESS_KEY_ID", "R2_SECRET_ACCESS_KEY", "R2_BUCKET_NAME"} \subseteq set
    /\ ("R2_ENDPOINT_URL" \in set \/ "R2_ACCOUNT_ID" \in set)

\* A cache that never answers.
CacheHitNever(c) == FALSE

\* lru_cache(maxsize=1): the call is answered from the cache once a call
\* has returned.
CacheHit(c) == c # 0

InitService ==
    /\ settings \in SUBSET SettingNames
    /\ cache = 0 /\ constructed = 0 /\ init_runs = 0
    /\ received = {} /\ calls = 0
    /\ bucket = {} /\ snapshot = {}
    /\ StorageAtRest /\ KeyAtRest

\* GetService: a handler calls get_object_storage_service(). A miss runs
\* ObjectStorageService.__init__; an exception it raises is not cached.
GetService(handler) ==
    /\ calls < MaxCalls
    /\ calls' = calls + 1
    /\ IF CacheHit(cache)
       THEN /\ received' = received \cup {<<handler, cache>>}
            /\ UNCHANGED <<cache, constructed, init_runs>>
       ELSE /\ init_runs' = init_runs + 1
            /\ IF _validate_configuration(settings)
               THEN /\ constructed' = constructed + 1
                    /\ cache' = constructed + 1
                    /\ received' = received \cup {<<handler, constructed + 1>>}
               ELSE UNCHANGED <<cache, constructed, received>>
    /\ UNCHANGED <<settings, storageVars, keyVars>>

NextService == \E handler \in Handlers : GetService(handler)

SpecService == InitService /\ [][NextService]_vars

(***************************************************************************)
(* Properties.                                                             *)
(***************************************************************************)
\* The last path segment of a key.
Leaf(k) == Last(Split(k, "/"))

\* The filename names no leaf: nothing is left of it once the whitespace
\* around it and its directory components are dropped.
NamesNoLeaf(name) ==
    LET base == Strip(name, Whitespace)
    IN  base = <<>> \/ Last(base) \in {"/", "\\"}

\* C8: build_key returns a non-empty key whose leaf holds only characters of
\* [A-Za-z0-9_.-], the leaf is "file" when nothing is left of the filename,
\* and build_key applied to the key it returned returns that key again.
C8_BuildKeyIdempotent ==
    /\ kpc \in {"built", "rebuilt"} =>
          /\ built # <<>>
          /\ \A i \in 1..Len(Leaf(built)) : Leaf(built)[i] \in SafeChars
          /\ NamesNoLeaf(kfilename) => Leaf(built) = FILE
          /\ ~Truthy(kprefix) => built = Leaf(built)
    /\ kpc = "rebuilt" => rebuilt = built

\* A filename with a directory component and a character the pattern
\* replaces went through build_key twice.
C8_Witness ==
    /\ kpc = "rebuilt"
    /\ kfilename = <<"a", "/", "(">>
    /\ kprefix = None
    /\ built = <<"_">>

\* A filename of which nothing is left went through build_key twice.
C8_WitnessFallback ==
    /\ kpc = "rebuilt"
    /\ kfilename = <<" ", "a", "\\">>
    /\ built = FILE

Done(op) == pc = "done" /\ result.op = op

\* The prefix the gateway sends for the prefix P it was given.
Normal(P) == IF Truthy(P) THEN Strip(P, {"/"}) ELSE <<>>

Ceil(a, b) == (a + b - 1) \div b

\* C3: a list_objects(prefix, max_keys) with max_keys >= 1 that returns,
\* over a bucket no one else writes to, returns the first min(max_keys, N)
\* of the N objects that match the prefix, in the bucket's order; every
\* request asks for min(max_keys, page cap) keys, the first without a
\* token and each later one with the token of the page before, and the
\* requests stop with the page that ends the listing or reaches max_keys.
C3_ListObjectsPaginates ==
    (Done("list_objects") /\ result.status = "ok" /\ writes = 0 /\ max_keys >= 1) =>
        LET all == SortByKey(Matching(snapshot, Normal(prefix)))
            want == Min(max_keys, Len(all))
            n == Len(requests)
        IN  /\ result.listing = SubSeq(all, 1, want)
            /\ \A i \in 1..n :
                  /\ requests[i].api = "list_objects_v2"
                  /\ requests[i].Prefix = Normal(prefix)
                  /\ requests[i].MaxKeys = Min(max_keys, PageCap)
                  /\ requests[i].ContinuationToken =
                        IF i = 1 THEN None
                        ELSE all[(i - 1) * Min(max_keys, PageCap)].key
            /\ n = Max(1, Ceil(want, Min(max_keys, PageCap)))

\* A listing of two pages that was cut to max_keys, for a prefix the
\* gateway strips a slash from.
C3_Witness ==
    /\ Done("list_objects") /\ result.status = "ok" /\ writes = 0
    /\ max_keys = PageCap + 1
    /\ Len(requests) = 2
    /\ Len(result.listing) = PageCap + 1
    /\ Cardinality(Matching(snapshot, Normal(prefix))) > PageCap + 1
    /\ prefix # Normal(prefix)

\* C1 as claimed: for every non-empty prefix P, after list_objects(prefix=P),
\* delete_prefix(P), list_objects(prefix=P) with no remote failure and no
\* other writer, the second listing is empty.
C1_SecondListingEmpty ==
    (pc = "done" /\ scenario.stage = 3 /\ scenario.P # <<>>) =>
        result.listing = <<>>

\* C1 as amended: the same for every prefix P that is not empty once its
\* leading and trailing slashes are stripped; then no object whose key
\* starts with the stripped prefix is left in the bucket.
C1_SecondListingEmptyNormalized ==
    (pc = "done" /\ scenario.stage = 3 /\ Strip(scenario.P, {"/"}) # <<>>) =>
        /\ result.listing = <<>>
        /\ Matching(bucket, Strip(scenario.P, {"/"})) = {}

\* The three calls ran on a prefix under which delete_prefix found more
\* objects than one batch holds.
C1_Witness ==
    /\ Done("list_objects")
    /\ scenario.stage = 3
    /\ scenario.deleted > PageCap
    /\ result.listing = <<>>

\* C2: upload_file of a file without content raises ObjectStorageError
\* before any request is sent, and the bucket is as the call found it.
C2_EmptyUploadRejected ==
    (Done("upload_file") /\ file.length = 0) =>
        /\ result.status = "ObjectStorageError"
        /\ requests = <<>>
        /\ bucket = snapshot

\* A named file without content was given to upload_file.
C2_Witness ==
    /\ Done("upload_file")
    /\ file.length = 0
    /\ Truthy(file.filename)
    /\ result.status = "ObjectStorageError"

\* C5 as claimed: a call of the gateway whose remote request failed, with
\* whatever failure, raised ObjectStorageError, and the request that failed
\* was its last.
C5_FailureIsDomainError ==
    (pc = "done" /\ result.fault # "none"
        /\ result.op \in {"upload_file", "list_objects", "delete_objects",
                           "generate_presigned_url"}) =>
        /\ result.status = "ObjectStorageError"
        /\ requests # <<>>

\* The keys of the bulk deletes the call sent, batch after batch.
RECURSIVE DeletedKeys(_)
DeletedKeys(reqs) ==
    IF reqs = <<>> THEN <<>>
    ELSE (IF Head(reqs).api = "delete_objects" THEN Head(reqs).Keys ELSE <<>>)
             \o DeletedKeys(Tail(reqs))

\* A delete_prefix(P) that returns, over a bucket no one else writes to,
\* returns the number of objects the bucket held under P (the keys that
\* start with P less its leading and trailing slashes) when it was called,
\* 0 exactly when there was none; each of them was named in one bulk
\* delete, once, and none of them is left.
PrefixCountExact ==
    (Done("delete_prefix") /\ result.status = "ok" /\ writes = 0) =>
        LET under == Matching(snapshot, Strip(prefix, {"/"}))
            sent == DeletedKeys(requests)
        IN  /\ result.count = Cardinality(under)
            /\ (result.count = 0) <=> (under = {})
            /\ Len(sent) = Cardinality(under)
            /\ \A o \in under : \E i \in 1..Len(sent) : sent[i] = o.key
            /\ bucket = snapshot \ under

C4_DeleteNotFoundIffNone ==
    (Done("delete_document") /\ result.fault = "none" /\ writes = 0) =>
        LET under == Matching(snapshot, _document_prefix(document_id))
        IN  /\ (result.http = 404) <=> (under = {})
            /\ (under # {}) =>
                   /\ result.http = 200
                   /\ result.count = Cardinality(under)
                   /\ Matching(bucket, _document_prefix(document_id)) = {}
            /\ result.again => result.http = 404

\* A second DELETE of a document answered 404 after the first one succeeded.
C4_Witness ==
    /\ Done("delete_document") /\ result.fault = "none" /\ writes = 0
    /\ result.again
    /\ result.http = 404

\* A key of the form documents/<id>/<filename>.
WellFormedKey(k) ==
    LET parts == Split(k, "/")
    IN  Len(parts) >= 3 /\ parts[1] = DOCUMENTS

\* C7: GET /api/v1/documents/ returns the documents by non-increasing
\* last_modified with the entries that have none last, one entry for each
\* listed object whose key has the form documents/<id>/<filename> and none
\* for another key, and a total that is the number of entries.
C7_ListDocumentsEntries ==
    (Done("list_documents") /\ result.http = 200) =>
        LET docs == result.documents
            Formed(o) == WellFormedKey(o.key)
            formed == SelectSeq(objects, Formed)
        IN  /\ \A i \in 1..(Len(docs) - 1) : SortKey(docs[i]) >= SortKey(docs[i + 1])
            /\ result.count = Len(docs)
            /\ Len(docs) = Len(formed)
            /\ \A i \in 1..Len(formed) :
                   \E j \in 1..Len(docs) : docs[j] = ToDocument(formed[i])

\* C10: a DELETE of document D that no other client disturbs removes only
\* objects whose key has the form documents/D/<filename>, and every object
\* stored under documents/E/ for another id E before the call is in the
\* bucket after it.
C10_DeleteLeavesOthers ==
    (Done("delete_document") /\ writes = 0) =>
        /\ \A o \in snapshot \ bucket :
               StartsWith(o.key, _document_prefix(document_id) \o <<"/">>)
        /\ \A E \in DocumentIds \ {document_id} :
               Matching(snapshot, _document_prefix(E) \o <<"/">>) \subseteq bucket

====
